---- MODULE Spec2Model ----
(***************************************************************************)
(* Model of the Qdrant MCP adapter: the worker's fetch handler, the        *)
(* tenant credential helpers and the gateway client QdrantClientImpl with  *)
(* its shared request routine.                                             *)
(*                                                                         *)
(* A slot is one execution context: an inbound HTTP request handled by the *)
(* worker, or a caller that builds a client with createQdrantClient.       *)
(* Every await of the code is a step boundary: a method runs until it      *)
(* awaits global fetch, and resumes when fetch resolves or rejects.        *)
(***************************************************************************)
EXTENDS Integers, Sequences, FiniteSets, TLC

\* ------------------------------------------------------------------------
\* Bounds
\* ------------------------------------------------------------------------

\* number of execution contexts that may be in progress at the same time
MaxInbound == 2

\* longest Retry-After header value, in characters
MaxHeaderLen == 2

Slots == 1..MaxInbound

\* ------------------------------------------------------------------------
\* JavaScript values
\* ------------------------------------------------------------------------

\* undefined / null / a header that is not there (string-typed slots only)
Absent == "<undefined>"

\* truthiness of a value of type string | undefined | null
Truthy(v) == v \notin {Absent, ""}

\* a || b
Or(a, b) == IF Truthy(a) THEN a ELSE b

\* numbers as produced by parseInt: a number or NaN
Num(n) == [nan |-> FALSE, n |-> n]
NaN == [nan |-> TRUE, n |-> 0]

Digits == {"0", "1", "2", "3", "4", "5", "6", "7", "8", "9"}

DigitVal(c) ==
    CASE c = "0" -> 0 [] c = "1" -> 1 [] c = "2" -> 2 [] c = "3" -> 3
      [] c = "4" -> 4 [] c = "5" -> 5 [] c = "6" -> 6 [] c = "7" -> 7
      [] c = "8" -> 8 [] c = "9" -> 9

RECURSIVE DigitPrefixLen(_)
\* length of the longest prefix of s made of decimal digits
DigitPrefixLen(s) ==
    IF s = <<>> \/ Head(s) \notin Digits THEN 0 ELSE 1 + DigitPrefixLen(Tail(s))

RECURSIVE DecimalValue(_, _)
\* value of the digit string s read after the digits already worth acc
DecimalValue(s, acc) ==
    IF s = <<>> THEN acc ELSE DecimalValue(Tail(s), 10 * acc + DigitVal(Head(s)))

RECURSIVE SkipSpaces(_)
SkipSpaces(s) == IF s # <<>> /\ Head(s) = " " THEN SkipSpaces(Tail(s)) ELSE s

\* parseInt(s, 10): leading white space, an optional sign, then the longest
\* run of digits; NaN when there is no digit at that place
parseInt(s) ==
    LET t == SkipSpaces(s)
        signed == t # <<>> /\ Head(t) \in {"-", "+"}
        u == IF signed THEN Tail(t) ELSE t
        k == DigitPrefixLen(u)
        v == DecimalValue(SubSeq(u, 1, k), 0)
    IN  IF k = 0 THEN NaN
        ELSE IF signed /\ Head(t) = "-" THEN Num(0 - v) ELSE Num(v)

\* ------------------------------------------------------------------------
\* Tenant credentials (types/env.ts)
\* ------------------------------------------------------------------------

\* parseTenantCredentials with ?? in place of ||: an empty header stays
parseTenantCredentialsKeepEmpty(headers) ==
    [apiKey |-> headers.apiKey, baseUrl |-> headers.baseUrl]

\* parseTenantCredentials: headers.get(name) || undefined
parseTenantCredentials(headers) ==
    [apiKey |-> Or(headers.apiKey, Absent), baseUrl |-> Or(headers.baseUrl, Absent)]

MissingKeyMessage == "Missing credentials. Provide X-Qdrant-API-Key header."
MissingUrlMessage ==
    "Missing Qdrant URL. Provide X-Qdrant-Base-URL header (e.g., https://your-cluster.qdrant.io:6333)."

\* validateCredentials without the check of the base URL
validateCredentialsKeyOnly(credentials) ==
    IF ~Truthy(credentials.apiKey)
    THEN [ok |-> FALSE, kind |-> "Error", message |-> MissingKeyMessage]
    ELSE [ok |-> TRUE, kind |-> "", message |-> ""]

\* validateCredentials: throws a plain Error for the first missing credential
validateCredentials(credentials) ==
    IF ~Truthy(credentials.apiKey)
    THEN [ok |-> FALSE, kind |-> "Error", message |-> MissingKeyMessage]
    ELSE IF ~Truthy(credentials.baseUrl)
    THEN [ok |-> FALSE, kind |-> "Error", message |-> MissingUrlMessage]
    ELSE [ok |-> TRUE, kind |-> "", message |-> ""]

\* ------------------------------------------------------------------------
\* Gateway client: construction and headers
\* ------------------------------------------------------------------------

\* QdrantClientImpl constructor
QdrantClientImpl(credentials) ==
    [credentials |-> credentials, baseUrl |-> Or(credentials.baseUrl, "")]

\* createQdrantClient: a new object on every call; the objects built so far
\* are the sequence cl, and an object's identity is its index
createQdrantClient(cl, credentials) ==
    [clients |-> Append(cl, QdrantClientImpl(credentials)), id |-> Len(cl) + 1]

\* getAuthHeaders setting api-key whether or not there is a key
getAuthHeadersAlways(client) ==
    [contentType |-> "application/json",
     apiKey |-> Or(client.credentials.apiKey, "undefined")]

\* getAuthHeaders
getAuthHeaders(client) ==
    [contentType |-> "application/json",
     apiKey |-> IF Truthy(client.credentials.apiKey)
                THEN client.credentials.apiKey ELSE Absent]

\* ------------------------------------------------------------------------
\* JavaScript values handed to the endpoint methods, and JSON
\* ------------------------------------------------------------------------

\* undefined, null, booleans, numbers, strings (sequences of characters),
\* arrays, and objects as their properties in insertion order
JsUndefined == [t |-> "undefined"]
JsNull == [t |-> "null"]
JsBool(b) == [t |-> "boolean", b |-> b]
JsNum(n) == [t |-> "number", n |-> n]
JsStr(c) == [t |-> "string", c |-> c]
JsArr(e) == [t |-> "array", e |-> e]
JsObj(e) == [t |-> "object", e |-> e]

\* one property of an object
Prop(k, v) == [k |-> k, v |-> v]

\* obj[k] = v: an own property keeps its place and takes the new value, a
\* new one goes last
SetProp(e, k, v) ==
    IF \E i \in 1..Len(e) : e[i].k = k
    THEN [i \in 1..Len(e) |-> IF e[i].k = k THEN Prop(k, v) ELSE e[i]]
    ELSE Append(e, Prop(k, v))

RECURSIVE SpreadProps(_, _)
\* the properties e followed by ...src inside an object literal
SpreadProps(e, src) ==
    IF src = <<>> THEN e
    ELSE SpreadProps(SetProp(e, Head(src).k, Head(src).v), Tail(src))

\* { ...src } after the properties e; spreading undefined or null adds nothing
Spread(e, src) == IF src.t = "object" THEN SpreadProps(e, src.e) ELSE e

\* a parameter with a default value: the default stands in for undefined
DefaultTo(v, d) == IF v.t = "undefined" THEN d ELSE v

\* `${b}` for a boolean
BoolString(v) == IF v.b THEN "true" ELSE "false"

\* JSON text, as the sequence of its tokens
Punct(s) == [k |-> "punct", s |-> s]
Literal(s) == [k |-> "literal", s |-> s]
KeyToken(s) == [k |-> "key", s |-> s]
StringToken(c) == [k |-> "string", c |-> c]
NumberToken(n) == [k |-> "number", n |-> n]

\* what JSON.stringify(undefined) gives as a request body: none
NoText == <<>>

RECURSIVE stringify(_)
RECURSIVE stringifyItems(_, _)
RECURSIVE stringifyProps(_, _)

\* the elements of an array: undefined becomes null
stringifyItems(e, first) ==
    IF e = <<>> THEN <<>>
    ELSE (IF first THEN <<>> ELSE <<Punct(",")>>)
            \o (IF Head(e).t = "undefined" THEN <<Literal("null")>> ELSE stringify(Head(e)))
            \o stringifyItems(Tail(e), FALSE)

\* the properties of an object: one whose value is undefined is left out
stringifyProps(e, first) ==
    IF e = <<>> THEN <<>>
    ELSE IF Head(e).v.t = "undefined" THEN stringifyProps(Tail(e), first)
    ELSE (IF first THEN <<>> ELSE <<Punct(",")>>)
            \o <<KeyToken(Head(e).k), Punct(":")>> \o stringify(Head(e).v)
            \o stringifyProps(Tail(e), FALSE)

\* JSON.stringify
stringify(v) ==
    CASE v.t = "undefined" -> NoText
      [] v.t = "null" -> <<Literal("null")>>
      [] v.t = "boolean" -> <<Literal(BoolString(v))>>
      [] v.t = "number" -> <<NumberToken(v.n)>>
      [] v.t = "string" -> <<StringToken(v.c)>>
      [] v.t = "array" -> <<Punct("[")>> \o stringifyItems(v.e, TRUE) \o <<Punct("]")>>
      [] v.t = "object" -> <<Punct("{")>> \o stringifyProps(v.e, TRUE) \o <<Punct("}")>>

\* ------------------------------------------------------------------------
\* Endpoint methods: verb, path and body
\* ------------------------------------------------------------------------

\* the methods the request-level specification calls
Methods ==
    {"getVersion", "getMetrics", "getPoint", "collectionExists", "createCollection",
     "upsertPoints", "testConnection"}

\* collection names, as sequences of characters
CollectionNames == {<<"d", "o", "c", "s">>, <<"a", "/", " ", "b">>, <<"%", "2", "F">>}

\* encodeURIComponent on the characters used here: letters and digits stand
\* for themselves, the others become % and two hexadecimal digits
EncodeChar(c) ==
    CASE c = "/" -> <<"%", "2", "F">>
      [] c = " " -> <<"%", "2", "0">>
      [] c = "%" -> <<"%", "2", "5">>
      [] c = "?" -> <<"%", "3", "F">>
      [] OTHER -> <<c>>

RECURSIVE encodeURIComponent(_)
encodeURIComponent(s) ==
    IF s = <<>> THEN <<>> ELSE EncodeChar(Head(s)) \o encodeURIComponent(Tail(s))

\* every method of the client, by the shape of its path:
\* /collections/{name} followed by a fixed suffix
CollectionSuffix ==
    [getCollection |-> <<>>,
     collectionExists |-> <<"/", "exists">>,
     createCollection |-> <<>>,
     updateCollection |-> <<>>,
     deleteCollection |-> <<>>,
     getCollectionAliases |-> <<"/", "aliases">>,
     upsertPoints |-> <<"/", "points">>,
     getPoints |-> <<"/", "points">>,
     deletePoints |-> <<"/", "points", "/", "delete">>,
     scrollPoints |-> <<"/", "points", "/", "scroll">>,
     countPoints |-> <<"/", "points", "/", "count">>,
     updateVectors |-> <<"/", "points", "/", "vectors">>,
     deleteVectors |-> <<"/", "points", "/", "vectors", "/", "delete">>,
     setPayload |-> <<"/", "points", "/", "payload">>,
     overwritePayload |-> <<"/", "points", "/", "payload">>,
     deletePayload |-> <<"/", "points", "/", "payload", "/", "delete">>,
     clearPayload |-> <<"/", "points", "/", "payload", "/", "clear">>,
     batchUpdate |-> <<"/", "points", "/", "batch">>,
     search |-> <<"/", "points", "/", "search">>,
     searchBatch |-> <<"/", "points", "/", "search", "/", "batch">>,
     query |-> <<"/", "points", "/", "query">>,
     queryBatch |-> <<"/", "points", "/", "query", "/", "batch">>,
     queryGroups |-> <<"/", "points", "/", "query", "/", "groups">>,
     recommend |-> <<"/", "points", "/", "recommend">>,
     recommendBatch |-> <<"/", "points", "/", "recommend", "/", "batch">>,
     recommendGroups |-> <<"/", "points", "/", "recommend", "/", "groups">>,
     discover |-> <<"/", "points", "/", "discover">>,
     discoverBatch |-> <<"/", "points", "/", "discover", "/", "batch">>,
     searchMatrixPairs |-> <<"/", "points", "/", "search", "/", "matrix", "/", "pairs">>,
     searchMatrixOffsets |-> <<"/", "points", "/", "search", "/", "matrix", "/", "offsets">>,
     listSnapshots |-> <<"/", "snapshots">>,
     createSnapshot |-> <<"/", "snapshots">>,
     recoverSnapshot |-> <<"/", "snapshots", "/", "recover">>,
     getCollectionClusterInfo |-> <<"/", "cluster">>,
     updateCollectionCluster |-> <<"/", "cluster">>,
     createShardKey |-> <<"/", "shards">>,
     deleteShardKey |-> <<"/", "shards", "/", "delete">>,
     createFieldIndex |-> <<"/", "index">>]

\* /collections/{name}/<prefix>/{item}: a point id, a snapshot name, a field name
CollectionItemPrefix ==
    [getPoint |-> <<"/", "points", "/">>,
     deleteSnapshot |-> <<"/", "snapshots", "/">>,
     deleteFieldIndex |-> <<"/", "index", "/">>]

\* a fixed path
FixedPath ==
    [getVersion |-> <<"/">>,
     testConnection |-> <<"/">>,
     getMetrics |-> <<"/", "metrics">>,
     getLocks |-> <<"/", "locks">>,
     setLocks |-> <<"/", "locks">>,
     listCollections |-> <<"/", "collections">>,
     listAliases |-> <<"/", "aliases">>,
     updateAliases |-> <<"/", "collections", "/", "aliases">>,
     listFullSnapshots |-> <<"/", "snapshots">>,
     createFullSnapshot |-> <<"/", "snapshots">>,
     getClusterStatus |-> <<"/", "cluster">>,
     recoverCluster |-> <<"/", "cluster", "/", "recover">>]

\* the methods that take a collection name
NamedMethods == DOMAIN CollectionSuffix \cup DOMAIN CollectionItemPrefix

\* the collection names a call of m may pass (none: the empty string)
NamesFor(m) == IF m \in NamedMethods THEN CollectionNames ELSE {<<>>}

\* the methods with a second string or number argument: the point id, the
\* snapshot name, the peer id (all in the path) or the field name
ItemMethods ==
    DOMAIN CollectionItemPrefix \cup {"deleteFullSnapshot", "removePeer", "createFieldIndex"}

AllMethods ==
    NamedMethods \cup DOMAIN FixedPath \cup {"getTelemetry", "deleteFullSnapshot", "removePeer"}

\* the methods with a wait parameter (default true)
WaitMethods ==
    {"upsertPoints", "deletePoints", "updateVectors", "deleteVectors", "setPayload",
     "overwritePayload", "deletePayload", "clearPayload", "batchUpdate",
     "createSnapshot", "deleteSnapshot", "recoverSnapshot", "createFullSnapshot",
     "deleteFullSnapshot", "createFieldIndex", "deleteFieldIndex"}

\* the methods with another boolean parameter: force (default false),
\* anonymize (default true)
FlagMethods == WaitMethods \cup {"removePeer", "getTelemetry"}

\* the methods that pass a body
BodyMethods ==
    {"setLocks", "createCollection", "updateCollection", "updateAliases", "upsertPoints",
     "getPoints", "deletePoints", "scrollPoints", "countPoints", "updateVectors",
     "deleteVectors", "setPayload", "overwritePayload", "deletePayload", "clearPayload",
     "batchUpdate", "search", "searchBatch", "query", "queryBatch", "queryGroups",
     "recommend", "recommendBatch", "recommendGroups", "discover", "discoverBatch",
     "searchMatrixPairs", "searchMatrixOffsets", "recoverSnapshot",
     "updateCollectionCluster", "createShardKey", "deleteShardKey", "createFieldIndex"}

\* the arguments of a call: the collection name, the second value
\* (String(id), a snapshot name, a field name, String(peerId)), the boolean
\* flag (wait, force or anonymize) and the request object (config, points,
\* ids, operations, ...); what a method does not take is never looked at
NoArgs == [name |-> <<>>, item |-> <<>>, flag |-> JsUndefined, body |-> JsUndefined]

\* the point id used by getPoint, String(42)
PointIdArg == <<"4", "2">>

PutMethods ==
    {"createCollection", "upsertPoints", "updateVectors", "overwritePayload",
     "recoverSnapshot", "createShardKey", "createFieldIndex"}
DeleteMethods ==
    {"deleteCollection", "deleteSnapshot", "deleteFullSnapshot", "removePeer",
     "deleteFieldIndex"}
PostMethods ==
    (BodyMethods \cup {"createSnapshot", "createFullSnapshot", "recoverCluster"})
        \ (PutMethods \cup {"updateCollection"})

\* options.method of the call; fetch takes GET when there is none
Verb(m) ==
    CASE m \in PutMethods -> "PUT"
      [] m = "updateCollection" -> "PATCH"
      [] m \in DeleteMethods -> "DELETE"
      [] m \in PostMethods -> "POST"
      [] OTHER -> "GET"

\* FlagQuery writing the default whatever was passed
FlagQueryDefaultOnly(m, flag) ==
    CASE m \in WaitMethods -> <<"?", "wait", "=", "true">>
      [] m = "removePeer" -> <<"?", "force", "=", "false">>
      [] m = "getTelemetry" -> <<"?", "anonymize", "=", "true">>
      [] OTHER -> <<>>

\* the query string: ?wait=${wait} with wait = true, ?force=${force} with
\* force = false, and anonymize ? '?anonymize=true' : '' with anonymize = true
FlagQuery(m, flag) ==
    CASE m \in WaitMethods -> <<"?", "wait", "=", BoolString(DefaultTo(flag, JsBool(TRUE)))>>
      [] m = "removePeer" -> <<"?", "force", "=", BoolString(DefaultTo(flag, JsBool(FALSE)))>>
      [] m = "getTelemetry" ->
            IF DefaultTo(flag, JsBool(TRUE)).b THEN <<"?", "anonymize", "=", "true">> ELSE <<>>
      [] OTHER -> <<>>

\* CollectionPath with the name as it is
CollectionPathRaw(name) == <<"/", "collections", "/">> \o name

\* /collections/${encodeURIComponent(collectionName)}
CollectionPath(name) == <<"/", "collections", "/">> \o encodeURIComponent(name)

\* the endpoint string handed to request, as a sequence of pieces: "/" and
\* "?" stand alone, the fixed words are one piece each, and what comes from
\* an argument is there character by character
Endpoint(m, a) ==
    CASE m \in DOMAIN CollectionSuffix ->
            CollectionPath(a.name) \o CollectionSuffix[m] \o FlagQuery(m, a.flag)
      [] m \in DOMAIN CollectionItemPrefix ->
            CollectionPath(a.name) \o CollectionItemPrefix[m] \o encodeURIComponent(a.item)
                \o FlagQuery(m, a.flag)
      [] m \in DOMAIN FixedPath -> FixedPath[m] \o FlagQuery(m, a.flag)
      [] m = "getTelemetry" -> <<"/", "telemetry">> \o FlagQuery(m, a.flag)
      [] m = "deleteFullSnapshot" ->
            <<"/", "snapshots", "/">> \o encodeURIComponent(a.item) \o FlagQuery(m, a.flag)
      [] m = "removePeer" ->
            <<"/", "cluster", "/", "peer", "/">> \o a.item \o FlagQuery(m, a.flag)

\* Body with createCollection sending its config inside another object
BodyWrapping(m, a) ==
    CASE m = "upsertPoints" -> stringify(JsObj(<<Prop("points", a.body)>>))
      [] m = "createCollection" -> stringify(JsObj(<<Prop("config", a.body)>>))
      [] m \in BodyMethods \ {"upsertPoints", "createCollection"} -> stringify(a.body)
      [] OTHER -> NoText

\* options.body of the call: JSON.stringify of the request object, or of the
\* object the method builds around it; none for the methods without a body
Body(m, a) ==
    CASE m = "upsertPoints" -> stringify(JsObj(<<Prop("points", a.body)>>))
      [] m = "getPoints" ->
            stringify(JsObj(<<Prop("ids", a.body), Prop("with_payload", JsBool(TRUE)),
                              Prop("with_vector", JsBool(FALSE))>>))
      [] m = "countPoints" -> stringify(DefaultTo(a.body, JsObj(<<>>)))
      [] m = "createFieldIndex" ->
            stringify(JsObj(Spread(<<Prop("field_name", JsStr(a.item))>>, a.body)))
      [] m \in BodyMethods \ {"upsertPoints", "getPoints", "countPoints", "createFieldIndex"} ->
            stringify(a.body)
      [] OTHER -> NoText

\* ------------------------------------------------------------------------
\* Responses of the remote service
\* ------------------------------------------------------------------------

Statuses == {200, 201, 204, 304, 400, 401, 403, 404, 429, 500, 503}

\* Response.ok
Ok(status) == status >= 200 /\ status <= 299

\* Content-Type values as sequences of pieces; <<>> is the value the code
\* works with when the header is missing (get(..) || '')
ContentTypes ==
    {<<>>, <<"application/json">>, <<"text/plain">>,
     <<"text/plain", "; version=0.0.4">>}

\* String.prototype.includes for a piece
includes(s, piece) == \E i \in 1..Len(s) : s[i] = piece

\* A header value as headers.get returns it: null when the header is not
\* there, else its characters
NoHeader == [present |-> FALSE, chars |-> <<>>]
HeaderOf(chars) == [present |-> TRUE, chars |-> chars]

\* truthiness of string | null
TruthyHeader(h) == h.present /\ h.chars # <<>>

HeaderAlphabet == {"3", "0", "x", "-"}

RECURSIVE StringsUpTo(_)
\* every string over HeaderAlphabet of at most n characters
StringsUpTo(n) ==
    IF n = 0 THEN {<<>>}
    ELSE LET shorter == StringsUpTo(n - 1)
         IN  shorter \cup {Append(s, c) : s \in shorter, c \in HeaderAlphabet}

RetryAfterHeaders == {NoHeader} \cup {HeaderOf(s) : s \in StringsUpTo(MaxHeaderLen)}

\* Values of a field of a JSON error body: missing, empty, or a text
FieldValues(text) == {Absent, "", text}

\* A response body.  json tells what JSON.parse makes of its text: a syntax
\* error, the value null, or an object; for an object, se is status.error
\* (Absent when status or status.error is missing), msg is message, err is
\* error and result is the result field ("{version}" stands for an object
\* with a version field, "{exists}" for the object {exists: true}, "false"
\* for the value false, and "list" for an array, whose elements are list).
InvalidBody ==
    [json |-> "invalid", se |-> Absent, msg |-> Absent, err |-> Absent, result |-> Absent, list |-> <<>>]
NullBody ==
    [json |-> "null", se |-> Absent, msg |-> Absent, err |-> Absent, result |-> Absent, list |-> <<>>]
EnvelopeBody ==
    [json |-> "object", se |-> Absent, msg |-> Absent, err |-> Absent,
     result |-> "{version}", list |-> <<>>]
ExistsBody ==
    [json |-> "object", se |-> Absent, msg |-> Absent, err |-> Absent,
     result |-> "{exists}", list |-> <<>>]
\* the envelope around the value false
FalseBody ==
    [json |-> "object", se |-> Absent, msg |-> Absent, err |-> Absent,
     result |-> "false", list |-> <<>>]
\* the envelope around an array of per-operation results, each named by the
\* number of the operation it answers
ListBody(list) ==
    [json |-> "object", se |-> Absent, msg |-> Absent, err |-> Absent,
     result |-> "list", list |-> list]
ErrorBodies ==
    [json : {"object"}, se : FieldValues("Not found"), msg : FieldValues("bad request"),
     err : FieldValues("failure"), result : {Absent}, list : {<<>>}]

Bodies == {InvalidBody, NullBody, EnvelopeBody, ExistsBody} \cup ErrorBodies

\* readThrows: reading the body (text() or json()) rejects
Responses ==
    [status : Statuses, contentType : ContentTypes,
     retryAfter : {NoHeader, HeaderOf(<<"3">>)}, body : Bodies, readThrows : BOOLEAN]
    \cup
    [status : {429}, contentType : {<<"application/json">>},
     retryAfter : RetryAfterHeaders, body : {InvalidBody, EnvelopeBody},
     readThrows : BOOLEAN]

NoResponse ==
    [status |-> 0, contentType |-> <<>>, retryAfter |-> NoHeader, body |-> InvalidBody,
     readThrows |-> FALSE]

\* ------------------------------------------------------------------------
\* Outcomes of a call
\* ------------------------------------------------------------------------

\* what a call returned: undefined, the raw text of a body, the result field
\* of a parsed body, the literal true, or testConnection's record
NoValue ==
    [tag |-> "none", body |-> InvalidBody, result |-> Absent, list |-> <<>>,
     connected |-> FALSE]
Undefined == [NoValue EXCEPT !.tag = "undefined"]
TextOf(body) == [NoValue EXCEPT !.tag = "text", !.body = body]
ResultOf(result) ==
    IF result = Absent THEN Undefined ELSE [NoValue EXCEPT !.tag = "result", !.result = result]
\* json.result of a parsed body
ResultOfBody(body) ==
    IF body.result = "list"
    THEN [NoValue EXCEPT !.tag = "result", !.result = "list", !.list = body.list]
    ELSE ResultOf(body.result)
True == [NoValue EXCEPT !.tag = "true"]
Connection(connected) == [NoValue EXCEPT !.tag = "connection", !.connected = connected]

NoOutcome ==
    [threw |-> FALSE, kind |-> "none", message |-> "", status |-> 0,
     retryAfter |-> Num(0), value |-> NoValue, bodyReads |-> 0]

Thrown(kind, message, status, retryAfter, bodyReads) ==
    [threw |-> TRUE, kind |-> kind, message |-> message, status |-> status,
     retryAfter |-> retryAfter, value |-> NoValue, bodyReads |-> bodyReads]

Returned(value, message, bodyReads) ==
    [threw |-> FALSE, kind |-> "return", message |-> message, status |-> 0,
     retryAfter |-> Num(0), value |-> value, bodyReads |-> bodyReads]

\* messages of the errors the runtime raises
BodyReadMessage == "body stream failed"
SyntaxErrorMessage == "Unexpected token in JSON"
NullResultMessage == "Cannot read properties of null (reading 'result')"
FetchFailedMessage == "fetch failed"
NoVersionMessage == "Cannot read properties of undefined (reading 'version')"
NoExistsMessage == "Cannot read properties of undefined (reading 'exists')"

\* ------------------------------------------------------------------------
\* The shared request routine (QdrantClientImpl.request)
\* ------------------------------------------------------------------------

NoUrlMessage == "No Qdrant URL provided. Set X-Qdrant-Base-URL header."
RateLimitMessage == "Rate limit exceeded"
AuthFailedMessage == "Authentication failed. Check your API key."

\* default of the retry hint when the Retry-After header gives nothing
DefaultRetryAfter == 60

\* requestRefuses without the check of the base URL
requestRefusesNever(client) == FALSE

\* if (!this.baseUrl): the routine stops before fetch
requestRefuses(client) == ~Truthy(client.baseUrl)

\* what the routine throws when it stops before fetch
requestRefusal == Thrown("AuthenticationError", NoUrlMessage, 0, Num(0), 0)

\* the call of fetch: url is baseUrl followed by the endpoint; headers are
\* getAuthHeaders() (no endpoint method passes header overrides)
requestFetch(client, m, a) ==
    [url |-> <<client.baseUrl>> \o Endpoint(m, a), verb |-> Verb(m),
     headers |-> getAuthHeaders(client), body |-> Body(m, a)]

\* retryAfterOf ignoring the header
retryAfterAlwaysDefault(h) == Num(DefaultRetryAfter)

\* retryAfter ? parseInt(retryAfter, 10) : 60
retryAfterOf(h) == IF TruthyHeader(h) THEN parseInt(h.chars) ELSE Num(DefaultRetryAfter)

\* status 429
handleRateLimit(resp) ==
    Thrown("RateLimitError", RateLimitMessage, 0, retryAfterOf(resp.retryAfter), 0)

\* errorMessage preferring message to status.error
errorMessageSwapped(resp) ==
    LET default == "API error: " \o ToString(resp.status)
        b == resp.body
    IN  IF b.json = "object" THEN Or(b.msg, Or(b.se, Or(b.err, default))) ELSE default

\* the message of a QdrantApiError: the default, replaced inside try by
\* status?.error || message || error || default; a SyntaxError of JSON.parse
\* and the TypeError of reading a property of null are both caught
errorMessage(resp) ==
    LET default == "API error: " \o ToString(resp.status)
        b == resp.body
    IN  IF b.json = "object" THEN Or(b.se, Or(b.msg, Or(b.err, default))) ELSE default

\* handleAuthFailure taking its message from the response body
handleAuthFailureFromBody(resp) ==
    Thrown("AuthenticationError", errorMessage(resp), 0, Num(0), 1)

\* status 401 or 403
handleAuthFailure(resp) == Thrown("AuthenticationError", AuthFailedMessage, 0, Num(0), 0)

\* handleOtherError with JSON.parse outside the try
handleOtherErrorNoCatch(resp) ==
    IF resp.readThrows
    THEN Thrown("TypeError", BodyReadMessage, 0, Num(0), 1)
    ELSE IF resp.body.json = "invalid"
    THEN Thrown("SyntaxError", SyntaxErrorMessage, 0, Num(0), 1)
    ELSE Thrown("QdrantApiError", errorMessage(resp), resp.status, Num(0), 1)

\* !response.ok: response.text() is awaited outside the try
handleOtherError(resp) ==
    IF resp.readThrows
    THEN Thrown("TypeError", BodyReadMessage, 0, Num(0), 1)
    ELSE Thrown("QdrantApiError", errorMessage(resp), resp.status, Num(0), 1)

\* handleSuccess turning a body that does not parse into a QdrantApiError
handleSuccessWrapsParseError(resp) ==
    IF resp.status = 204 THEN Returned(Undefined, "", 0)
    ELSE IF resp.readThrows THEN Thrown("TypeError", BodyReadMessage, 0, Num(0), 1)
    ELSE IF includes(resp.contentType, "text/plain") THEN Returned(TextOf(resp.body), "", 1)
    ELSE IF resp.body.json = "invalid"
    THEN Thrown("QdrantApiError", SyntaxErrorMessage, resp.status, Num(0), 1)
    ELSE IF resp.body.json = "null"
    THEN Thrown("TypeError", NullResultMessage, 0, Num(0), 1)
    ELSE Returned(ResultOfBody(resp.body), "", 1)

\* handleSuccess returning the parsed body itself, not its result field
handleSuccessWholeEnvelope(resp) ==
    IF resp.status = 204 THEN Returned(Undefined, "", 0)
    ELSE IF resp.readThrows THEN Thrown("TypeError", BodyReadMessage, 0, Num(0), 1)
    ELSE IF includes(resp.contentType, "text/plain") THEN Returned(TextOf(resp.body), "", 1)
    ELSE IF resp.body.json = "invalid"
    THEN Thrown("SyntaxError", SyntaxErrorMessage, 0, Num(0), 1)
    ELSE Returned([NoValue EXCEPT !.tag = "envelope", !.body = resp.body], "", 1)

\* handleSuccess without the 204 case
handleSuccessReads204(resp) ==
    IF resp.readThrows THEN Thrown("TypeError", BodyReadMessage, 0, Num(0), 1)
    ELSE IF includes(resp.contentType, "text/plain") THEN Returned(TextOf(resp.body), "", 1)
    ELSE IF resp.body.json = "invalid"
    THEN Thrown("SyntaxError", SyntaxErrorMessage, 0, Num(0), 1)
    ELSE IF resp.body.json = "null"
    THEN Thrown("TypeError", NullResultMessage, 0, Num(0), 1)
    ELSE Returned(ResultOfBody(resp.body), "", 1)

\* a 2xx response: 204, then text/plain, then the JSON envelope
handleSuccess(resp) ==
    IF resp.status = 204 THEN Returned(Undefined, "", 0)
    ELSE IF resp.readThrows THEN Thrown("TypeError", BodyReadMessage, 0, Num(0), 1)
    ELSE IF includes(resp.contentType, "text/plain") THEN Returned(TextOf(resp.body), "", 1)
    ELSE IF resp.body.json = "invalid"
    THEN Thrown("SyntaxError", SyntaxErrorMessage, 0, Num(0), 1)
    ELSE IF resp.body.json = "null"
    THEN Thrown("TypeError", NullResultMessage, 0, Num(0), 1)
    ELSE Returned(ResultOfBody(resp.body), "", 1)

\* requestResponse looking at the content type before the status
requestResponseTextFirst(resp) ==
    IF resp.status = 429 THEN handleRateLimit(resp)
    ELSE IF resp.status \in {401, 403} THEN handleAuthFailure(resp)
    ELSE IF includes(resp.contentType, "text/plain") /\ resp.status # 204 /\ ~resp.readThrows
    THEN Returned(TextOf(resp.body), "", 1)
    ELSE IF ~Ok(resp.status) THEN handleOtherError(resp)
    ELSE handleSuccess(resp)

\* the routine after fetch resolved with resp
requestResponse(resp) ==
    IF resp.status = 429 THEN handleRateLimit(resp)
    ELSE IF resp.status \in {401, 403} THEN handleAuthFailure(resp)
    ELSE IF ~Ok(resp.status) THEN handleOtherError(resp)
    ELSE handleSuccess(resp)

\* fetch rejected: the rejection leaves the routine as it is
requestRejected == Thrown("TypeError", FetchFailedMessage, 0, Num(0), 0)

\* ------------------------------------------------------------------------
\* Endpoint methods: what they make of the routine's outcome
\* ------------------------------------------------------------------------

\* version.version of what getVersion returned
VersionOf(value) == IF value.tag = "result" THEN "1.12.0" ELSE "undefined"

\* testConnection without its catch
testConnectionRethrows(o) ==
    IF o.threw THEN o
    ELSE IF o.value.tag = "undefined"
    THEN Thrown("TypeError", NoVersionMessage, 0, Num(0), o.bodyReads)
    ELSE Returned(Connection(TRUE), "Connected to Qdrant " \o VersionOf(o.value), o.bodyReads)

\* testConnection reporting a connection whatever getVersion returned
testConnectionUnread(o) ==
    IF o.threw THEN Returned(Connection(FALSE), o.message, o.bodyReads)
    ELSE Returned(Connection(TRUE), "Connected to Qdrant " \o VersionOf(o.value), o.bodyReads)

\* testConnection: try { getVersion } catch { connected: false }; building the
\* message reads version.version inside the try
testConnection(o) ==
    IF o.threw THEN Returned(Connection(FALSE), o.message, o.bodyReads)
    ELSE IF o.value.tag = "undefined"
    THEN Returned(Connection(FALSE), NoVersionMessage, o.bodyReads)
    ELSE Returned(Connection(TRUE), "Connected to Qdrant " \o VersionOf(o.value), o.bodyReads)

\* collectionExists: result.exists of what the routine returned
collectionExists(o) ==
    IF o.threw THEN o
    ELSE IF o.value.tag = "undefined"
    THEN Thrown("TypeError", NoExistsMessage, 0, Num(0), o.bodyReads)
    ELSE IF o.value.tag = "result" /\ o.value.result = "{exists}"
    THEN Returned(True, "", o.bodyReads)
    ELSE Returned(Undefined, "", o.bodyReads)

\* the methods that await the routine and then return true
BooleanMethods ==
    {"createCollection", "updateCollection", "deleteCollection", "updateAliases",
     "deleteSnapshot", "recoverSnapshot", "deleteFullSnapshot", "recoverCluster",
     "removePeer", "updateCollectionCluster", "createShardKey", "deleteShardKey"}

\* methodOutcome with the boolean methods returning what the routine returned
methodOutcomePassing(m, o) ==
    CASE m = "testConnection" -> testConnection(o)
      [] m = "collectionExists" -> collectionExists(o)
      [] OTHER -> o

\* methodOutcome with the boolean methods returning true whatever happened
methodOutcomeSwallowing(m, o) ==
    CASE m = "testConnection" -> testConnection(o)
      [] m = "collectionExists" -> collectionExists(o)
      [] m \in BooleanMethods -> Returned(True, "", o.bodyReads)
      [] OTHER -> o

\* the outcome of method m when the routine's outcome is o
methodOutcome(m, o) ==
    CASE m = "testConnection" -> testConnection(o)
      [] m = "collectionExists" -> collectionExists(o)
      [] m \in BooleanMethods -> IF o.threw THEN o ELSE Returned(True, "", o.bodyReads)
      [] OTHER -> o

\* ------------------------------------------------------------------------
\* The worker (index.ts)
\* ------------------------------------------------------------------------

\* createStatelessServer keeping the first client it built for later requests
createStatelessServerCached(cl, credentials) ==
    IF cl # <<>> THEN [clients |-> cl, id |-> 1] ELSE createQdrantClient(cl, credentials)

\* createStatelessServer: a new McpServer whose tools close over a client
\* built for these credentials
createStatelessServer(cl, credentials) == createQdrantClient(cl, credentials)

\* ------------------------------------------------------------------------
\* Tool handlers (tools/*.ts, index.ts)
\* ------------------------------------------------------------------------

\* obj[k], undefined when obj has no such property
GetProp(obj, k) ==
    IF \E i \in 1..Len(obj.e) : obj.e[i].k = k
    THEN obj.e[CHOOSE i \in 1..Len(obj.e) : obj.e[i].k = k].v
    ELSE JsUndefined

\* the tools modelled, and the client method each handler calls
ToolMethod ==
    [qdrant_test_connection |-> "testConnection",
     qdrant_upsert_points |-> "upsertPoints",
     qdrant_create_collection |-> "createCollection",
     qdrant_switch_alias |-> "updateAliases",
     qdrant_create_field_index |-> "createFieldIndex",
     qdrant_batch_update |-> "batchUpdate"]

ToolNames == DOMAIN ToolMethod

\* qdrant_switch_alias sending the delete alone
switchAliasDeleteOnly(aliasName, newCollectionName) ==
    JsObj(<<Prop("actions", JsArr(<<
        JsObj(<<Prop("delete_alias", JsObj(<<Prop("alias_name", JsStr(aliasName))>>))>>)>>))>>)

\* the operations qdrant_switch_alias hands to updateAliases
switchAliasOperations(aliasName, newCollectionName) ==
    JsObj(<<Prop("actions", JsArr(<<
        JsObj(<<Prop("delete_alias", JsObj(<<Prop("alias_name", JsStr(aliasName))>>))>>),
        JsObj(<<Prop("create_alias",
                     JsObj(<<Prop("collection_name", JsStr(newCollectionName)),
                             Prop("alias_name", JsStr(aliasName))>>))>>)>>))>>)

\* the config qdrant_create_collection builds of its input
createCollectionConfig(input) ==
    JsObj(<<Prop("vectors", JsObj(<<Prop("size", GetProp(input, "vectorSize")),
                                    Prop("distance", GetProp(input, "distance"))>>)),
            Prop("on_disk_payload", GetProp(input, "onDiskPayload")),
            Prop("shard_number", GetProp(input, "shardNumber")),
            Prop("replication_factor", GetProp(input, "replicationFactor"))>>)

\* the kind of a batch operation: the first of the handler's tests that holds
OperationKinds ==
    <<"upsert", "delete", "set_payload", "overwrite_payload", "delete_payload",
      "clear_payload">>
HasProp(obj, k) == \E i \in 1..Len(obj.e) : obj.e[i].k = k
KindOf(op) ==
    OperationKinds[CHOOSE i \in 1..Len(OperationKinds) :
        /\ HasProp(op, OperationKinds[i])
        /\ \A j \in 1..(i - 1) : ~HasProp(op, OperationKinds[j])]

\* operations.map(...): the handler's copy of one operation
BatchOperationOf(op) ==
    LET kind == KindOf(op)
        inner == GetProp(op, kind)
        points == Prop("points", GetProp(inner, "points"))
        filter == Prop("filter", GetProp(inner, "filter"))
        payload == Prop("payload", GetProp(inner, "payload"))
    IN  JsObj(<<Prop(kind,
            JsObj(CASE kind = "upsert" -> <<points>>
                    [] kind \in {"delete", "clear_payload"} -> <<points, filter>>
                    [] kind \in {"set_payload", "overwrite_payload"} -> <<payload, points, filter>>
                    [] kind = "delete_payload" ->
                        <<Prop("keys", GetProp(inner, "keys")), points, filter>>))>>)

\* batchOperations of qdrant_batch_update, dropping the last operation
batchOperationsDropping(operations) ==
    JsArr([i \in 1..(Len(operations.e) - 1) |-> BatchOperationOf(operations.e[i])])

\* batchOperations of qdrant_batch_update
batchOperations(operations) ==
    JsArr([i \in 1..Len(operations.e) |-> BatchOperationOf(operations.e[i])])

\* the arguments the handler passes to its client method; the input of a
\* tool is the record zod made: name (collectionName, newCollectionName),
\* item (fieldName, aliasName), flag (wait) and body (points, operations,
\* fieldSchema, or the remaining fields as an object)
ToolArgs(tool, input) ==
    CASE tool = "qdrant_test_connection" -> NoArgs
      [] tool = "qdrant_upsert_points" ->
            [name |-> input.name, item |-> <<>>, flag |-> input.flag, body |-> input.body]
      [] tool = "qdrant_create_collection" ->
            [name |-> input.name, item |-> <<>>, flag |-> JsUndefined,
             body |-> createCollectionConfig(input.body)]
      [] tool = "qdrant_switch_alias" ->
            [name |-> <<>>, item |-> <<>>, flag |-> JsUndefined,
             body |-> switchAliasOperations(input.item, input.name)]
      [] tool = "qdrant_create_field_index" ->
            [name |-> input.name, item |-> input.item, flag |-> input.flag,
             body |-> IF input.body.t = "string" /\ input.body.c # <<>>
                      THEN JsObj(<<Prop("field_name", JsStr(input.item)),
                                   Prop("field_schema", input.body)>>)
                      ELSE JsUndefined]
      [] tool = "qdrant_batch_update" ->
            [name |-> input.name, item |-> <<>>, flag |-> input.flag,
             body |-> JsObj(<<Prop("operations", batchOperations(input.body))>>)]

\* formatErrorForLogging comes from utils/errors.ts: it is taken to return
formatErrorForLogging(o) == [threw |-> FALSE, details |-> o.kind]

\* what a handler gives back: a tool response, or nothing when it threw
NoToolResponse == [returned |-> FALSE, isError |-> FALSE, content |-> "none"]
ToolResponse(isError, content) ==
    [returned |-> TRUE, isError |-> isError, content |-> content]
HandlerThrew == [returned |-> FALSE, isError |-> FALSE, content |-> "thrown"]

\* formatError: the response is built once formatErrorForLogging returned
formatError(o) ==
    IF formatErrorForLogging(o).threw THEN HandlerThrew ELSE ToolResponse(TRUE, "error")

\* the tools whose handler reads result.status of what the client returned
StatusReaders == {"qdrant_upsert_points", "qdrant_create_field_index"}
NoStatusMessage == "Cannot read properties of undefined (reading 'status')"

\* how the try block of the handler ends when the client method ended with o
handlerTry(tool, o) ==
    IF o.threw THEN o
    ELSE IF tool \in StatusReaders /\ o.value.tag = "undefined"
    THEN Thrown("TypeError", NoStatusMessage, 0, Num(0), o.bodyReads)
    ELSE o

\* the handler without its catch
handlerReturnUncaught(tool, o) ==
    IF handlerTry(tool, o).threw THEN HandlerThrew ELSE ToolResponse(FALSE, "result")

\* the handler: try { call the client, build the response } catch { formatError }
handlerReturn(tool, o) ==
    LET t == handlerTry(tool, o)
    IN  IF ~t.threw THEN ToolResponse(FALSE, "result")
        ELSE IF tool = "qdrant_test_connection" THEN ToolResponse(TRUE, "Connection failed")
        ELSE formatError(t)

NoToolCall == [tool |-> "none", input |-> NoArgs, response |-> NoToolResponse]

\* the handler of the slot, if one is running, returns
Finish(tc, o) ==
    IF tc.tool = "none" THEN tc ELSE [tc EXCEPT !.response = handlerReturn(tc.tool, o)]

NoHeaders == [apiKey |-> Absent, baseUrl |-> Absent]
NoShell == [status |-> 0, message |-> ""]
NoCall == [method |-> "none", args |-> NoArgs]

\* ------------------------------------------------------------------------
\* State
\* ------------------------------------------------------------------------

\* the number of requests one client sends in a sequence of calls
MaxCalls == 3

VARIABLES
    pc,          \* slot -> "idle", "rejected", "ready", "awaiting" or "done"
    inbound,     \* slot -> the credential headers of its inbound request
    credentials, \* slot -> the TenantCredentials made of them, or handed in
    shell,       \* slot -> the response the worker itself gave (401), if any
    clients,     \* the client objects constructed so far, in order
    clientOf,    \* slot -> index of the client it holds, 0 for none
    call,        \* slot -> the method invoked and its collection name
    sent,        \* slot -> the outbound requests its invocation issued
    response,    \* slot -> the response fetch resolved with
    reqOutcome,  \* slot -> how the request routine ended
    outcome,     \* slot -> how the endpoint method ended
    toolCall     \* slot -> the tool handler that made the call, and its response

vars ==
    <<pc, inbound, credentials, shell, clients, clientOf, call, sent, response, reqOutcome,
      outcome, toolCall>>

Init ==
    /\ pc = [s \in Slots |-> "idle"]
    /\ inbound = [s \in Slots |-> NoHeaders]
    /\ credentials = [s \in Slots |-> NoHeaders]
    /\ shell = [s \in Slots |-> NoShell]
    /\ clients = <<>>
    /\ clientOf = [s \in Slots |-> 0]
    /\ call = [s \in Slots |-> NoCall]
    /\ sent = [s \in Slots |-> <<>>]
    /\ response = [s \in Slots |-> NoResponse]
    /\ reqOutcome = [s \in Slots |-> NoOutcome]
    /\ outcome = [s \in Slots |-> NoOutcome]
    /\ toolCall = [s \in Slots |-> NoToolCall]

\* ------------------------------------------------------------------------
\* Actions
\* ------------------------------------------------------------------------

\* fetch handler, POST /mcp: parse the headers, validate, answer 401 or
\* build the server and its client
ReceiveMcp(s, headers) ==
    /\ pc[s] = "idle"
    /\ inbound' = [inbound EXCEPT ![s] = headers]
    /\ credentials' = [credentials EXCEPT ![s] = parseTenantCredentials(headers)]
    /\ LET v == validateCredentials(credentials'[s])
           made == createStatelessServer(clients, credentials'[s])
       IN  IF v.ok
           THEN /\ clients' = made.clients
                /\ clientOf' = [clientOf EXCEPT ![s] = made.id]
                /\ pc' = [pc EXCEPT ![s] = "ready"]
                /\ UNCHANGED shell
           ELSE /\ shell' = [shell EXCEPT ![s] = [status |-> 401, message |-> v.message]]
                /\ pc' = [pc EXCEPT ![s] = "rejected"]
                /\ UNCHANGED <<clients, clientOf>>
    /\ UNCHANGED <<call, sent, response, reqOutcome, outcome, toolCall>>

\* a caller of the exported factory: createQdrantClient(credentials) with
\* credentials nobody validated
CreateClient(s, given) ==
    /\ pc[s] = "idle"
    /\ credentials' = [credentials EXCEPT ![s] = given]
    /\ LET made == createQdrantClient(clients, given)
       IN  /\ clients' = made.clients
           /\ clientOf' = [clientOf EXCEPT ![s] = made.id]
    /\ pc' = [pc EXCEPT ![s] = "ready"]
    /\ UNCHANGED <<inbound, shell, call, sent, response, reqOutcome, outcome, toolCall>>

\* method m is called with the arguments a on the slot's client, by the
\* handler tc or by nobody (NoToolCall), and runs up to the await of fetch,
\* or to the throw before it, which ends the handler too
Call(s, m, a, tc) ==
    /\ pc[s] = "ready"
    /\ call' = [call EXCEPT ![s] = [method |-> m, args |-> a]]
    /\ LET client == clients[clientOf[s]]
       IN  IF requestRefuses(client)
           THEN /\ reqOutcome' = [reqOutcome EXCEPT ![s] = requestRefusal]
                /\ outcome' = [outcome EXCEPT ![s] = methodOutcome(m, requestRefusal)]
                /\ toolCall' = [toolCall EXCEPT ![s] = Finish(tc, outcome'[s])]
                /\ pc' = [pc EXCEPT ![s] = "done"]
                /\ UNCHANGED sent
           ELSE /\ sent' = [sent EXCEPT ![s] = Append(@, requestFetch(client, m, a))]
                /\ toolCall' = [toolCall EXCEPT ![s] = tc]
                /\ pc' = [pc EXCEPT ![s] = "awaiting"]
                /\ UNCHANGED <<reqOutcome, outcome>>
    /\ UNCHANGED <<inbound, credentials, shell, clients, clientOf, response>>

\* an endpoint method is called on the slot's client
Invoke(s, m, a) == Call(s, m, a, NoToolCall)

\* the server dispatches a tool call to its handler, which calls its method
CallTool(s, tool, input) ==
    Call(s, ToolMethod[tool], ToolArgs(tool, input),
         [tool |-> tool, input |-> input, response |-> NoToolResponse])

\* FetchResolve with an error message that quotes the client's API key
FetchResolveLeaking(s, resp) ==
    LET o == requestResponse(resp)
        leaked == IF o.threw
                  THEN [o EXCEPT !.message =
                            @ \o " (key " \o clients[clientOf[s]].credentials.apiKey \o ")"]
                  ELSE o
    IN  /\ pc[s] = "awaiting"
        /\ response' = [response EXCEPT ![s] = resp]
        /\ reqOutcome' = [reqOutcome EXCEPT ![s] = leaked]
        /\ outcome' = [outcome EXCEPT ![s] = methodOutcome(call[s].method, leaked)]
        /\ toolCall' = [toolCall EXCEPT ![s] = Finish(@, outcome'[s])]
        /\ pc' = [pc EXCEPT ![s] = "done"]
        /\ UNCHANGED <<inbound, credentials, shell, clients, clientOf, call, sent>>

\* FetchResolve with a retry inside the client: a 429 or a 5xx sends the
\* request once more and waits again
FetchResolveRetrying(s, resp) ==
    /\ pc[s] = "awaiting"
    /\ IF resp.status \in {429, 500, 503} /\ Len(sent[s]) < 2
       THEN /\ sent' = [sent EXCEPT ![s] = Append(@, @[1])]
            /\ UNCHANGED <<pc, response, reqOutcome, outcome, toolCall>>
       ELSE /\ response' = [response EXCEPT ![s] = resp]
            /\ reqOutcome' = [reqOutcome EXCEPT ![s] = requestResponse(resp)]
            /\ outcome' =
                [outcome EXCEPT ![s] = methodOutcome(call[s].method, requestResponse(resp))]
            /\ toolCall' = [toolCall EXCEPT ![s] = Finish(@, outcome'[s])]
            /\ pc' = [pc EXCEPT ![s] = "done"]
            /\ UNCHANGED sent
    /\ UNCHANGED <<inbound, credentials, shell, clients, clientOf, call>>

\* FetchResolve with a client that forgets its API key once the service
\* answered 401
FetchResolveForgetting(s, resp) ==
    /\ pc[s] = "awaiting"
    /\ response' = [response EXCEPT ![s] = resp]
    /\ reqOutcome' = [reqOutcome EXCEPT ![s] = requestResponse(resp)]
    /\ outcome' = [outcome EXCEPT ![s] = methodOutcome(call[s].method, requestResponse(resp))]
    /\ toolCall' = [toolCall EXCEPT ![s] = Finish(@, outcome'[s])]
    /\ pc' = [pc EXCEPT ![s] = "done"]
    /\ clients' = IF resp.status = 401
                  THEN [clients EXCEPT ![clientOf[s]].credentials.apiKey = Absent]
                  ELSE clients
    /\ UNCHANGED <<inbound, credentials, shell, clientOf, call, sent>>

\* fetch resolves with a response; the routine classifies it and the method
\* finishes
FetchResolve(s, resp) ==
    /\ pc[s] = "awaiting"
    /\ response' = [response EXCEPT ![s] = resp]
    /\ reqOutcome' = [reqOutcome EXCEPT ![s] = requestResponse(resp)]
    /\ outcome' = [outcome EXCEPT ![s] = methodOutcome(call[s].method, requestResponse(resp))]
    /\ toolCall' = [toolCall EXCEPT ![s] = Finish(@, outcome'[s])]
    /\ pc' = [pc EXCEPT ![s] = "done"]
    /\ UNCHANGED <<inbound, credentials, shell, clients, clientOf, call, sent>>

\* fetch rejects (network failure)
FetchReject(s) ==
    /\ pc[s] = "awaiting"
    /\ reqOutcome' = [reqOutcome EXCEPT ![s] = requestRejected]
    /\ outcome' = [outcome EXCEPT ![s] = methodOutcome(call[s].method, requestRejected)]
    /\ toolCall' = [toolCall EXCEPT ![s] = Finish(@, outcome'[s])]
    /\ pc' = [pc EXCEPT ![s] = "done"]
    /\ UNCHANGED <<inbound, credentials, shell, clients, clientOf, call, sent, response>>

\* the holder of the client calls it once more after a call has ended; the
\* client keeps no trace of the calls it served
CallAgain(s) ==
    /\ pc[s] = "done"
    /\ Len(sent[s]) < MaxCalls
    /\ pc' = [pc EXCEPT ![s] = "ready"]
    /\ UNCHANGED <<inbound, credentials, shell, clients, clientOf, call, sent, response,
                   reqOutcome, outcome, toolCall>>

\* ------------------------------------------------------------------------
\* Specifications
\* ------------------------------------------------------------------------

\* the arguments the calls of these specifications pass beside the name
SampleConfig ==
    JsObj(<<Prop("vectors", JsObj(<<Prop("size", JsNum(4)),
                                    Prop("distance", JsStr(<<"C", "o", "s", "i", "n", "e">>))>>))>>)
SamplePoints ==
    JsArr(<<JsObj(<<Prop("id", JsNum(1)), Prop("vector", JsArr(<<JsNum(0), JsNum(1)>>))>>)>>)
SampleArgs(m, name) ==
    [name |-> name,
     item |-> IF m = "getPoint" THEN PointIdArg ELSE <<>>,
     flag |-> JsUndefined,
     body |-> CASE m = "createCollection" -> SampleConfig
                [] m = "upsertPoints" -> SamplePoints
                [] OTHER -> JsUndefined]

\* Spec: the worker serving concurrent inbound requests
KeyValues == {Absent, "", "key-A", "key-B"}
UrlValues == {Absent, "", "http://a:6333", "http://b:6333"}
InboundHeaders == [apiKey : KeyValues, baseUrl : UrlValues]
ServedMethods == {"getVersion", "createCollection"}
ServedNames == {<<>>, <<"d", "o", "c", "s">>}
NotFoundBody ==
    [json |-> "object", se |-> "Not found", msg |-> Absent, err |-> Absent,
     result |-> Absent, list |-> <<>>]
ServedResponses ==
    {r \in Responses :
        /\ \/ r.status \in {200, 401, 429} /\ r.body = EnvelopeBody
           \/ r.status = 404 /\ r.body = NotFoundBody
        /\ r.contentType = <<"application/json">>
        /\ r.retryAfter = NoHeader
        /\ ~r.readThrows}

Next ==
    \E s \in Slots :
        \/ \E h \in InboundHeaders : ReceiveMcp(s, h)
        \/ \E m \in ServedMethods : \E n \in NamesFor(m) \cap ServedNames : Invoke(s, m, SampleArgs(m, n))
        \/ \E r \in ServedResponses : FetchResolve(s, r)
        \/ FetchReject(s)

Spec == Init /\ [][Next]_vars

\* SpecRequest: one client built from any credentials, one call of any
\* method, any response
DirectCredentials == [apiKey : {Absent, "", "key-A"}, baseUrl : {Absent, "", "http://a:6333"}]

NextRequest ==
    \/ \E c \in DirectCredentials : CreateClient(1, c)
    \/ \E m \in Methods : \E n \in NamesFor(m) : Invoke(1, m, SampleArgs(m, n))
    \/ pc[1] = "awaiting" /\ \E r \in Responses : FetchResolve(1, r)
    \/ FetchReject(1)

SpecRequest == Init /\ [][NextRequest]_vars

\* SpecCalls: one client, one call of any method of the client with any of
\* its arguments, or one tool call, and any answer of the service
MaxOps == 3

CallCredentials ==
    {[apiKey |-> "key-A", baseUrl |-> "http://a:6333"],
     [apiKey |-> Absent, baseUrl |-> "http://a:6333"],
     [apiKey |-> "key-A", baseUrl |-> Absent]}

Cosine == JsStr(<<"C", "o", "s", "i", "n", "e">>)
Vectors == JsObj(<<Prop("size", JsNum(4)), Prop("distance", Cosine)>>)

\* CollectionCreateRequest values: optional properties left out, undefined or set
Configs ==
    {JsObj(<<Prop("vectors", Vectors)>> \o disk \o shards) :
        disk \in {<<>>, <<Prop("on_disk_payload", JsUndefined)>>,
                  <<Prop("on_disk_payload", JsBool(FALSE))>>},
        shards \in {<<>>, <<Prop("shard_number", JsUndefined)>>,
                    <<Prop("shard_number", JsNum(2))>>}}

\* batch operations, told apart by the point they name
OperationChoices ==
    {JsObj(<<Prop("upsert", JsObj(<<Prop("points", JsArr(<<JsNum(1)>>))>>))>>),
     JsObj(<<Prop("delete", JsObj(<<Prop("points", JsArr(<<JsNum(2)>>))>>))>>),
     JsObj(<<Prop("clear_payload", JsObj(<<Prop("points", JsArr(<<JsNum(3)>>))>>))>>)}

\* every non-empty list of at most MaxOps operations
OperationLists ==
    UNION {[1..n -> OperationChoices] : n \in 1..MaxOps}

FieldName == <<"t", "a", "g">>
OtherFieldName == <<"c", "i", "t", "y">>
Keyword == JsStr(<<"k", "e", "y", "w", "o", "r", "d">>)

\* CreateFieldIndexRequest values: none, one naming the field of the call,
\* one naming another field
FieldIndexRequests ==
    {JsUndefined,
     JsObj(<<Prop("field_name", JsStr(FieldName)), Prop("field_schema", Keyword)>>),
     JsObj(<<Prop("field_name", JsStr(OtherFieldName)), Prop("field_schema", Keyword)>>)}

AliasName == <<"p", "r", "o", "d">>
SampleAliasOperations ==
    JsObj(<<Prop("actions", JsArr(<<
        JsObj(<<Prop("delete_alias", JsObj(<<Prop("alias_name", JsStr(AliasName))>>))>>)>>))>>)
SampleRequest == JsObj(<<Prop("limit", JsNum(3))>>)

ItemsFor(m) ==
    CASE m = "getPoint" -> {PointIdArg}
      [] m \in {"deleteSnapshot", "deleteFullSnapshot"} -> {<<"s", "1">>, <<"a", "/", "b">>}
      [] m \in {"deleteFieldIndex", "createFieldIndex"} -> {FieldName}
      [] m = "removePeer" -> {<<"7">>}
      [] OTHER -> {<<>>}

FlagsFor(m) ==
    IF m \in FlagMethods THEN {JsUndefined, JsBool(TRUE), JsBool(FALSE)} ELSE {JsUndefined}

BodiesFor(m) ==
    CASE m = "createCollection" -> Configs
      [] m = "createFieldIndex" -> FieldIndexRequests
      [] m = "batchUpdate" -> {JsObj(<<Prop("operations", JsArr(ops))>>) : ops \in OperationLists}
      [] m = "updateAliases" -> {SampleAliasOperations}
      [] m = "upsertPoints" -> {SamplePoints}
      [] m = "getPoints" -> {JsArr(<<JsNum(1), JsNum(2)>>)}
      [] m = "countPoints" -> {JsUndefined, SampleRequest}
      [] m \in BodyMethods \ {"createCollection", "createFieldIndex", "batchUpdate",
                              "updateAliases", "upsertPoints", "getPoints", "countPoints"} ->
            {SampleRequest}
      [] OTHER -> {JsUndefined}

ArgsFor(m) ==
    [name : NamesFor(m), item : ItemsFor(m), flag : FlagsFor(m), body : BodiesFor(m)]

\* what zod hands to the handler of a tool (wait has a default there)
ToolInputs(tool) ==
    CASE tool = "qdrant_test_connection" -> {NoArgs}
      [] tool = "qdrant_upsert_points" ->
            [name : CollectionNames, item : {<<>>}, flag : {JsBool(TRUE), JsBool(FALSE)},
             body : {SamplePoints}]
      [] tool = "qdrant_create_collection" ->
            [name : {<<"d", "o", "c", "s">>}, item : {<<>>}, flag : {JsUndefined},
             body : {JsObj(<<Prop("vectorSize", JsNum(4)), Prop("distance", Cosine)>> \o disk) :
                        disk \in {<<>>, <<Prop("onDiskPayload", JsBool(TRUE))>>}}]
      [] tool = "qdrant_switch_alias" ->
            [name : CollectionNames, item : {AliasName}, flag : {JsUndefined},
             body : {JsUndefined}]
      [] tool = "qdrant_create_field_index" ->
            [name : {<<"d", "o", "c", "s">>}, item : {FieldName, OtherFieldName},
             flag : {JsBool(TRUE), JsBool(FALSE)}, body : {JsUndefined, Keyword}]
      [] tool = "qdrant_batch_update" ->
            [name : {<<"d", "o", "c", "s">>}, item : {<<>>}, flag : {JsBool(TRUE)},
             body : {JsArr(ops) : ops \in OperationLists}]

\* the lists of per-operation results the service may answer with
ResultLists == UNION {[1..n -> 1..MaxOps] : n \in 0..MaxOps}

EmptyObjectBody ==
    [json |-> "object", se |-> Absent, msg |-> Absent, err |-> Absent,
     result |-> Absent, list |-> <<>>]

CallResponses ==
    [status : {200}, contentType : {<<"application/json">>}, retryAfter : {NoHeader},
     body : {EnvelopeBody, FalseBody, EmptyObjectBody, InvalidBody}
                \cup {ListBody(l) : l \in ResultLists},
     readThrows : {FALSE}]
    \cup
    [status : {204, 401, 404, 429, 500}, contentType : {<<"application/json">>},
     retryAfter : {NoHeader}, body : {NotFoundBody}, readThrows : {FALSE}]

NextCalls ==
    \/ \E c \in CallCredentials : CreateClient(1, c)
    \/ \E m \in AllMethods : \E a \in ArgsFor(m) : Invoke(1, m, a)
    \/ \E tool \in ToolNames : \E input \in ToolInputs(tool) : CallTool(1, tool, input)
    \/ pc[1] = "awaiting" /\ \E r \in CallResponses : FetchResolve(1, r)
    \/ FetchReject(1)

SpecCalls == Init /\ [][NextCalls]_vars

\* SpecSequence: one client serving one call after the other
SequenceMethods == {"getVersion", "testConnection", "createCollection", "removePeer"}

NextSequence ==
    \/ \E c \in CallCredentials : CreateClient(1, c)
    \/ \E m \in SequenceMethods : \E n \in NamesFor(m) \cap ServedNames :
            Invoke(1, m, SampleArgs(m, n))
    \/ \E r \in ServedResponses : FetchResolve(1, r)
    \/ FetchReject(1)
    \/ CallAgain(1)

SpecSequence == Init /\ [][NextSequence]_vars

\* ------------------------------------------------------------------------
\* Properties
\* ------------------------------------------------------------------------

\* the slot's call has ended
Done(s) == pc[s] = "done"

\* the slot's call has ended and fetch had resolved with a response
Answered(s) == Done(s) /\ response[s].status # 0

\* the credentials the slot's client was built from
CredentialsOf(s) == clients[clientOf[s]].credentials

\* the slot holds a client whose credentials have no usable base URL
NoBaseUrl(s) == clientOf[s] # 0 /\ CredentialsOf(s).baseUrl \in {Absent, ""}

\* a non-2xx status that is none of 429, 401, 403
OtherError(status) == ~Ok(status) /\ status \notin {0, 429, 401, 403}

\* a string that is a decimal number: one digit or more, and nothing else
IsNumber(chars) == chars # <<>> /\ \A i \in 1..Len(chars) : chars[i] \in Digits

\* C1: a client whose base URL is empty or not provided never issues an
\* outbound request, whatever method is called: the call is never left
\* waiting for fetch, and when it has ended the request routine has thrown
\* with no request sent.
C1_NoRequestWithoutBaseUrl ==
    \A s \in Slots :
        NoBaseUrl(s) =>
            /\ sent[s] = <<>>
            /\ pc[s] # "awaiting"
            /\ Done(s) => reqOutcome[s].threw

C1_Witness ==
    \E s \in Slots :
        /\ NoBaseUrl(s) /\ Done(s)
        /\ call[s].method = "upsertPoints"
        /\ reqOutcome[s].threw /\ sent[s] = <<>>

\* C2: the error the request routine raises for an empty base URL is a
\* ConfigurationError.
C2_ConfigurationError ==
    \A s \in Slots : (NoBaseUrl(s) /\ Done(s)) => reqOutcome[s].kind = "ConfigurationError"

\* C3: under any interleaving of inbound /mcp requests, every outbound
\* request goes to the base URL and carries the api-key of the inbound request
\* that issued it, each inbound request that was let in has a client of its
\* own, and no client is held by two inbound requests.
C3_TenantIsolation ==
    /\ \A s \in Slots : \A i \in 1..Len(sent[s]) :
            /\ sent[s][i].url[1] = inbound[s].baseUrl
            /\ sent[s][i].headers.apiKey = inbound[s].apiKey
    /\ \A s, t \in Slots : (s # t /\ clientOf[s] # 0) => clientOf[s] # clientOf[t]
    /\ Len(clients) = Cardinality({s \in Slots : clientOf[s] # 0})

C3_Witness ==
    \E s, t \in Slots :
        /\ s # t
        /\ pc[s] = "awaiting" /\ pc[t] = "done"
        /\ Len(sent[s]) = 1 /\ Len(sent[t]) = 1
        /\ inbound[s].apiKey # inbound[t].apiKey
        /\ inbound[s].baseUrl # inbound[t].baseUrl
        /\ clientOf[s] < clientOf[t]

\* what the classification of C4 prescribes for a response, case by case
SixOutcomes(r, o) ==
    IF r.status = 429 THEN o.threw /\ o.kind = "RateLimitError"
    ELSE IF r.status \in {401, 403} THEN o.threw /\ o.kind = "AuthenticationError"
    ELSE IF ~Ok(r.status) THEN o.threw /\ o.kind = "QdrantApiError"
    ELSE IF r.status = 204 THEN ~o.threw /\ o.value = Undefined
    ELSE IF includes(r.contentType, "text/plain") THEN ~o.threw /\ o.value = TextOf(r.body)
    ELSE ~o.threw /\ o.value = ResultOfBody(r.body)

BodyFailure(r) ==
    /\ r.status \notin {429, 401, 403, 204}
    /\ \/ r.readThrows
       \/ /\ Ok(r.status)
          /\ ~includes(r.contentType, "text/plain")
          /\ r.body.json # "object"

C5_RetryAfter ==
    \A s \in Slots :
        (Answered(s) /\ response[s].status = 429) =>
            LET h == response[s].retryAfter
                o == reqOutcome[s]
            IN  /\ o.threw /\ o.kind = "RateLimitError"
                /\ ~h.present => o.retryAfter = Num(60)
                /\ (h.present /\ IsNumber(h.chars)) =>
                        o.retryAfter = Num(DecimalValue(h.chars, 0))
                /\ call[s].method # "testConnection" => outcome[s] = o

C5_Witness ==
    \E s \in Slots :
        /\ Answered(s) /\ response[s].status = 429
        /\ response[s].retryAfter = HeaderOf(<<"3", "0">>)
        /\ call[s].method = "getPoint"
        /\ outcome[s].kind = "RateLimitError"
        /\ outcome[s].retryAfter = Num(30)

\* C6: on a 429 whose Retry-After header is there but does not parse as an
\* integer, the retry-after of the RateLimitError is 60.
C6_UnparseableRetryAfter ==
    \A s \in Slots :
        (/\ Answered(s) /\ response[s].status = 429
         /\ response[s].retryAfter.present
         /\ parseInt(response[s].retryAfter.chars) = NaN)
            => reqOutcome[s].retryAfter = Num(60)

\* C7: 401 and 403 both fail the request with AuthenticationError and one
\* fixed message, whatever the body, and the body is not read.
C7_FixedAuthMessage ==
    \A s \in Slots :
        (Answered(s) /\ response[s].status \in {401, 403}) =>
            /\ reqOutcome[s].threw
            /\ reqOutcome[s].kind = "AuthenticationError"
            /\ reqOutcome[s].message = AuthFailedMessage
            /\ reqOutcome[s].bodyReads = 0
            /\ call[s].method # "testConnection" => outcome[s] = reqOutcome[s]

C7_Witness ==
    \E s \in Slots :
        /\ Answered(s) /\ response[s].status = 403
        /\ response[s].body.json = "object" /\ response[s].body.se = "Not found"
        /\ reqOutcome[s].message = AuthFailedMessage

\* the first of status.error, message, error that the body has, else the
\* generic message
FirstPresent(r) ==
    LET b == r.body
    IN  IF b.json = "object" /\ b.se # Absent THEN b.se
        ELSE IF b.json = "object" /\ b.msg # Absent THEN b.msg
        ELSE IF b.json = "object" /\ b.err # Absent THEN b.err
        ELSE "API error: " \o ToString(r.status)

\* the first of status.error, message, error that the body has with a
\* non-empty value, else the generic message
FirstNonEmpty(r) ==
    LET b == r.body
    IN  IF b.json = "object" /\ b.se \notin {Absent, ""} THEN b.se
        ELSE IF b.json = "object" /\ b.msg \notin {Absent, ""} THEN b.msg
        ELSE IF b.json = "object" /\ b.err \notin {Absent, ""} THEN b.err
        ELSE "API error: " \o ToString(r.status)

C9_ParseFailureSwallowed ==
    \A s \in Slots :
        (Answered(s) /\ OtherError(response[s].status)) =>
            /\ reqOutcome[s].kind # "SyntaxError"
            /\ (~response[s].readThrows /\ response[s].body.json = "invalid") =>
                    /\ reqOutcome[s].threw
                    /\ reqOutcome[s].kind = "QdrantApiError"
                    /\ reqOutcome[s].status = response[s].status
                    /\ reqOutcome[s].message = "API error: " \o ToString(response[s].status)

C9_Witness ==
    \E s \in Slots :
        /\ Answered(s) /\ response[s].status = 500
        /\ ~response[s].readThrows /\ response[s].body.json = "invalid"
        /\ reqOutcome[s].kind = "QdrantApiError"
        /\ reqOutcome[s].message = "API error: 500"

\* C10: a 204 makes the routine return undefined without one attempt to
\* read the body, also when reading the body would throw.
C10_NoContent ==
    \A s \in Slots :
        (Answered(s) /\ response[s].status = 204) =>
            /\ ~reqOutcome[s].threw
            /\ reqOutcome[s].value = Undefined
            /\ reqOutcome[s].bodyReads = 0

C10_Witness ==
    \E s \in Slots :
        /\ Answered(s) /\ response[s].status = 204
        /\ response[s].readThrows
        /\ call[s].method = "getVersion"
        /\ ~outcome[s].threw /\ outcome[s].value = Undefined

\* methods that hand back what the request routine returned, as it is
PassThroughMethods == {"getVersion", "getMetrics", "getPoint", "upsertPoints"}

C12_OneRequest ==
    \A s \in Slots :
        /\ Len(sent[s]) <= 1
        /\ pc[s] = "awaiting" => Len(sent[s]) = 1
        /\ (Done(s) /\ Truthy(credentials[s].baseUrl)) => Len(sent[s]) = 1

C12_Witness ==
    \E s \in Slots :
        /\ Answered(s) /\ response[s].status = 503
        /\ call[s].method = "testConnection"
        /\ Len(sent[s]) = 1

\* the messages an error of the routine may carry for response r without
\* knowing any credential: the fixed texts and the texts of the body
KeyFreeMessages(r) ==
    {NoUrlMessage, RateLimitMessage, AuthFailedMessage, FetchFailedMessage,
     BodyReadMessage, SyntaxErrorMessage, NullResultMessage,
     "API error: " \o ToString(r.status), r.body.se, r.body.msg, r.body.err}

C14_AuthHeaders ==
    \A s \in Slots :
        LET k == credentials[s].apiKey
        IN  /\ \A i \in 1..Len(sent[s]) :
                    /\ sent[s][i].headers.contentType = "application/json"
                    /\ k \notin {Absent, ""} => sent[s][i].headers.apiKey = k
                    /\ k \in {Absent, ""} => sent[s][i].headers.apiKey = Absent
            /\ (/\ k \in {Absent, ""} /\ credentials[s].baseUrl \notin {Absent, ""}
                /\ pc[s] \in {"awaiting", "done"}) =>
                    /\ Len(sent[s]) = 1
                    /\ (/\ Answered(s) /\ response[s].status = 200
                        /\ response[s].body = EnvelopeBody
                        /\ ~response[s].readThrows
                        /\ response[s].contentType = <<"application/json">>) =>
                            ~reqOutcome[s].threw

C14_Witness ==
    \E s \in Slots :
        /\ Answered(s)
        /\ credentials[s].apiKey = Absent
        /\ sent[s][1].headers.apiKey = Absent
        /\ sent[s][1].headers.contentType = "application/json"
        /\ response[s].status = 200 /\ response[s].body = EnvelopeBody
        /\ response[s].contentType = <<"application/json">>
        /\ ~response[s].readThrows
        /\ reqOutcome[s].value = ResultOf("{version}")

\* C15: the connectivity test never throws; whenever the version-info call
\* throws (no base URL, a classified error, a failure of fetch, a body that
\* cannot be read or parsed) it returns connected: false with the message of
\* that error.
C15_TestConnectionAbsorbs ==
    \A s \in Slots :
        (Done(s) /\ call[s].method = "testConnection") =>
            /\ ~outcome[s].threw
            /\ outcome[s].value.tag = "connection"
            /\ reqOutcome[s].threw =>
                    /\ outcome[s].value = Connection(FALSE)
                    /\ outcome[s].message = reqOutcome[s].message

C15_Witness ==
    \E s \in Slots :
        /\ Done(s) /\ call[s].method = "testConnection"
        /\ Len(sent[s]) = 1 /\ response[s].status = 0
        /\ reqOutcome[s].threw /\ reqOutcome[s].message = FetchFailedMessage
        /\ outcome[s].value = Connection(FALSE)
        /\ outcome[s].message = FetchFailedMessage

\* C16: every endpoint method but the connectivity test ends with the very
\* error the request routine threw: same kind, message, status and retry
\* hint, never a return.
C16_ErrorsPropagate ==
    \A s \in Slots :
        (Done(s) /\ call[s].method # "testConnection" /\ reqOutcome[s].threw) =>
            /\ outcome[s].threw
            /\ outcome[s] = reqOutcome[s]

C16_Witness ==
    \E s \in Slots :
        /\ Answered(s) /\ call[s].method = "createCollection"
        /\ response[s].status = 429
        /\ response[s].retryAfter = HeaderOf(<<"3">>)
        /\ outcome[s].threw /\ outcome[s].kind = "RateLimitError"
        /\ outcome[s].retryAfter = Num(3)

\* fetch was called and rejected
Rejected(s) == Done(s) /\ Len(sent[s]) = 1 /\ response[s].status = 0

\* a 2xx response that is to be parsed as JSON and whose body, read without
\* failure, is not valid JSON
UnparseableSuccess(r) ==
    /\ Ok(r.status) /\ r.status # 204
    /\ ~includes(r.contentType, "text/plain")
    /\ ~r.readThrows /\ r.body.json = "invalid"

\* C17: a failure of fetch and a JSON parse failure on a 2xx body leave the
\* routine as the TypeError and the SyntaxError they are, never as
\* AuthenticationError, RateLimitError or ApiError, and leave every method
\* but the connectivity test the same way.
C17_GenericErrorsUnmodified ==
    \A s \in Slots :
        /\ Rejected(s) =>
                /\ reqOutcome[s].threw
                /\ reqOutcome[s].kind = "TypeError"
                /\ reqOutcome[s].message = FetchFailedMessage
        /\ (Answered(s) /\ UnparseableSuccess(response[s])) =>
                /\ reqOutcome[s].threw
                /\ reqOutcome[s].kind = "SyntaxError"
                /\ reqOutcome[s].message = SyntaxErrorMessage
        /\ (/\ Rejected(s) \/ (Answered(s) /\ UnparseableSuccess(response[s]))
            /\ call[s].method # "testConnection") =>
                outcome[s] = reqOutcome[s]

C17_Witness ==
    \E s \in Slots :
        /\ Answered(s) /\ call[s].method = "getPoint"
        /\ response[s].status = 200
        /\ response[s].contentType = <<"application/json">>
        /\ UnparseableSuccess(response[s])
        /\ outcome[s].threw /\ outcome[s].kind = "SyntaxError"

\* the worker has taken the slot's inbound request
Received(s) == pc[s] # "idle"

\* the credential headers that the inbound request lacks (not there, or empty)
MissingHeaders(h) ==
    {n \in {"X-Qdrant-API-Key"} : h.apiKey \in {Absent, ""}}
        \cup {n \in {"X-Qdrant-Base-URL"} : h.baseUrl \in {Absent, ""}}

HeadersNamed(message) ==
    {n \in {"X-Qdrant-API-Key", "X-Qdrant-Base-URL"} :
        \/ n = "X-Qdrant-API-Key" /\ message = MissingKeyMessage
        \/ n = "X-Qdrant-Base-URL" /\ message = MissingUrlMessage}

\* C19: validate lets the credentials through exactly when both are there;
\* otherwise it fails with a ConfigurationError whose message names every
\* missing header, both when both are missing.
C19_ValidateNamesAllMissing ==
    \A s \in Slots :
        Received(s) =>
            LET v == validateCredentials(credentials[s])
                missing == MissingHeaders(inbound[s])
            IN  /\ v.ok <=> missing = {}
                /\ pc[s] = "rejected" <=> missing # {}
                /\ pc[s] = "rejected" =>
                        /\ v.kind = "ConfigurationError"
                        /\ HeadersNamed(shell[s].message) = missing

\* C20 as stated: a header that is not there becomes not-provided, never the
\* empty string, and a header that is not there and a header that is there
\* with an empty value give different credentials.
C20_UnsetDiffersFromEmpty ==
    /\ \A s \in Slots :
            Received(s) =>
                /\ inbound[s].apiKey = Absent => credentials[s].apiKey = Absent
                /\ inbound[s].baseUrl = Absent => credentials[s].baseUrl = Absent
    /\ \A s, t \in Slots :
            (Received(s) /\ Received(t)) =>
                /\ (inbound[s].apiKey = Absent /\ inbound[t].apiKey = "") =>
                        credentials[s].apiKey # credentials[t].apiKey
                /\ (inbound[s].baseUrl = Absent /\ inbound[t].baseUrl = "") =>
                        credentials[s].baseUrl # credentials[t].baseUrl

\* C20 amended: a header that is not there becomes not-provided, and so does
\* a header that is there with an empty value; any other header value is kept
\* as it is, and no credential is ever the empty string.
C20_EmptyIsNotProvided ==
    \A s \in Slots :
        Received(s) =>
            /\ credentials[s].apiKey =
                    IF inbound[s].apiKey \in {Absent, ""} THEN Absent ELSE inbound[s].apiKey
            /\ credentials[s].baseUrl =
                    IF inbound[s].baseUrl \in {Absent, ""} THEN Absent ELSE inbound[s].baseUrl
            /\ credentials[s].apiKey # "" /\ credentials[s].baseUrl # ""

C20_Witness ==
    \E s, t \in Slots :
        /\ Received(s) /\ Received(t)
        /\ inbound[s].apiKey = Absent /\ inbound[t].apiKey = ""
        /\ inbound[s].baseUrl = "http://a:6333" /\ inbound[t].baseUrl = "http://a:6333"
        /\ credentials[s] = credentials[t]
        /\ credentials[t].apiKey = Absent

\* the slot's call has sent its request
Sent(s) == Len(sent[s]) >= 1

\* the pieces of a url before its first "?", without the base URL
PathOf(url) ==
    LET marks == {i \in 1..Len(url) : url[i] = "?"}
    IN  IF marks = {} THEN Tail(url)
        ELSE SubSeq(url, 2, (CHOOSE i \in marks : \A j \in marks : i <= j) - 1)

\* the pieces of a url from its first "?" on
QueryOf(url) ==
    LET marks == {i \in 1..Len(url) : url[i] = "?"}
    IN  IF marks = {} THEN <<>>
        ELSE SubSeq(url, CHOOSE i \in marks : \A j \in marks : i <= j, Len(url))

\* the methods that change points, vectors, payload, indexes or snapshots
MutatingMethods ==
    {"upsertPoints", "deletePoints", "updateVectors", "deleteVectors", "setPayload",
     "overwritePayload", "deletePayload", "clearPayload", "batchUpdate",
     "createFieldIndex", "deleteFieldIndex", "createSnapshot", "deleteSnapshot",
     "recoverSnapshot", "createFullSnapshot", "deleteFullSnapshot"}

\* the text of the boolean passed, or of the default when none was passed
FlagText(flag, default) ==
    IF flag = JsUndefined THEN default ELSE IF flag = JsBool(TRUE) THEN "true" ELSE "false"

\* C21: every mutating point, vector, payload, batch, index and snapshot
\* method ends its path with ?wait=<bool>, the text of the value passed and
\* true when none is passed; removePeer ends its path with ?force=<bool>,
\* false when none is passed.
C21_QueryFlagDefaults ==
    \A s \in Slots :
        Sent(s) =>
            LET m == call[s].method
                flag == call[s].args.flag
                query == QueryOf(sent[s][1].url)
            IN  /\ m \in MutatingMethods => query = <<"?", "wait", "=", FlagText(flag, "true")>>
                /\ m = "removePeer" => query = <<"?", "force", "=", FlagText(flag, "false")>>

C21_Witness ==
    \E s \in Slots :
        /\ Sent(s)
        /\ call[s].method = "deletePoints"
        /\ call[s].args.flag = JsBool(FALSE)
        /\ sent[s][1].url =
                <<"http://a:6333", "/", "collections", "/", "d", "o", "c", "s", "/", "points",
                  "/", "delete", "?", "wait", "=", "false">>

\* C22: a boolean-returning method returns true exactly when the request
\* routine ended without throwing, whatever the routine returned (the value
\* false, nothing at all); it never returns anything but true, and when the
\* routine threw, the method throws the same error.
C22_BooleanResults ==
    \A s \in Slots :
        (Done(s) /\ call[s].method \in
            {"createCollection", "updateCollection", "deleteCollection", "updateAliases",
             "deleteSnapshot", "recoverSnapshot", "recoverCluster", "removePeer",
             "updateCollectionCluster", "createShardKey", "deleteShardKey"}) =>
                /\ outcome[s].threw <=> reqOutcome[s].threw
                /\ ~reqOutcome[s].threw => outcome[s].value = True
                /\ reqOutcome[s].threw => outcome[s] = reqOutcome[s]

C22_Witness ==
    \E s \in Slots :
        /\ Done(s)
        /\ call[s].method = "deleteCollection"
        /\ response[s].status = 200 /\ response[s].body = FalseBody
        /\ reqOutcome[s].value = ResultOf("false")
        /\ outcome[s].value = True

RECURSIVE SplitPath(_, _, _)
\* a path cut at every "/": the segments seen so far are acc, the one being
\* read is cur
SplitPath(p, cur, acc) ==
    IF p = <<>> THEN Append(acc, cur)
    ELSE IF Head(p) = "/" THEN SplitPath(Tail(p), <<>>, Append(acc, cur))
    ELSE SplitPath(Tail(p), Append(cur, Head(p)), acc)

\* the segments of a path that starts with "/"
Segments(p) == Tail(SplitPath(p, <<>>, <<>>))

\* the character that % and two hexadecimal digits stand for
HexChar(h1, h2) ==
    CASE <<h1, h2>> = <<"2", "F">> -> "/"
      [] <<h1, h2>> = <<"2", "0">> -> " "
      [] <<h1, h2>> = <<"2", "5">> -> "%"
      [] <<h1, h2>> = <<"3", "F">> -> "?"
      [] OTHER -> "<URIError>"

RECURSIVE decodeURIComponent(_)
\* percent-decoding of a segment
decodeURIComponent(s) ==
    IF s = <<>> THEN <<>>
    ELSE IF Head(s) # "%" THEN <<Head(s)>> \o decodeURIComponent(Tail(s))
    ELSE IF Len(s) < 3 THEN <<"<URIError>">>
    ELSE <<HexChar(s[2], s[3])>> \o decodeURIComponent(SubSeq(s, 4, Len(s)))

\* the number of segments of the path of a method that takes a collection
\* name: collections, the name, and what the method puts after it
SegmentCount(m) ==
    IF m \in DOMAIN CollectionSuffix
    THEN 2 + Cardinality({i \in 1..Len(CollectionSuffix[m]) : CollectionSuffix[m][i] = "/"})
    ELSE 4

\* C23: every method that takes a collection name puts it into the path as
\* one segment, the second, right after collections: whatever the name holds
\* (a "/", a space, a "%"), the path has the number of segments the method
\* always has, and the second segment, percent-decoded, is the name again.
C23_NameRoundTrip ==
    \A s \in Slots :
        (Sent(s) /\ call[s].method \in NamedMethods) =>
            LET segments == Segments(PathOf(sent[s][1].url))
            IN  /\ Len(segments) = SegmentCount(call[s].method)
                /\ segments[1] = <<"collections">>
                /\ \A i \in 1..Len(segments[2]) : segments[2][i] # "/"
                /\ decodeURIComponent(segments[2]) = call[s].args.name

C23_Witness ==
    \E s \in Slots :
        /\ Sent(s)
        /\ call[s].method = "getCollectionAliases"
        /\ call[s].args.name = <<"a", "/", " ", "b">>
        /\ PathOf(sent[s][1].url) =
                <<"/", "collections", "/", "a", "%", "2", "F", "%", "2", "0", "b", "/", "aliases">>
        /\ decodeURIComponent(<<"a", "%", "2", "F", "%", "2", "0", "b">>) = <<"a", "/", " ", "b">>

RECURSIVE parseValue(_, _)
RECURSIVE parseItems(_, _, _)
RECURSIVE parseProps(_, _, _)

\* the elements of an array from token i on
parseItems(t, i, acc) ==
    LET r == parseValue(t, i)
    IN  IF t[r.i] = Punct(",") THEN parseItems(t, r.i + 1, Append(acc, r.v))
        ELSE [v |-> JsArr(Append(acc, r.v)), i |-> r.i + 1]

\* the properties of an object from token i on
parseProps(t, i, acc) ==
    LET r == parseValue(t, i + 2)
        props == SetProp(acc, t[i].s, r.v)
    IN  IF t[r.i] = Punct(",") THEN parseProps(t, r.i + 1, props)
        ELSE [v |-> JsObj(props), i |-> r.i + 1]

\* the value that starts at token i, and the index of the token after it
parseValue(t, i) ==
    CASE t[i].k = "string" -> [v |-> JsStr(t[i].c), i |-> i + 1]
      [] t[i].k = "number" -> [v |-> JsNum(t[i].n), i |-> i + 1]
      [] t[i].k = "literal" ->
            [v |-> IF t[i].s = "null" THEN JsNull ELSE JsBool(t[i].s = "true"), i |-> i + 1]
      [] t[i] = Punct("[") ->
            IF t[i + 1] = Punct("]") THEN [v |-> JsArr(<<>>), i |-> i + 2]
            ELSE parseItems(t, i + 1, <<>>)
      [] t[i] = Punct("{") ->
            IF t[i + 1] = Punct("}") THEN [v |-> JsObj(<<>>), i |-> i + 2]
            ELSE parseProps(t, i + 1, <<>>)

\* JSON decoding of a body that was sent
JSONparse(t) == parseValue(t, 1).v

\* the properties of an object that hold a value
Defined(e) == SelectSeq(e, LAMBDA p : p.v.t # "undefined")
Keys(e) == {e[i].k : i \in 1..Len(e)}

RECURSIVE DeepEqual(_, _)
\* deep equality of two values: arrays element by element, objects property
\* by property whatever the order, a property that holds undefined counting
\* as no property
DeepEqual(a, b) ==
    IF a.t # b.t THEN FALSE
    ELSE CASE a.t = "array" ->
                /\ Len(a.e) = Len(b.e)
                /\ \A i \in 1..Len(a.e) : DeepEqual(a.e[i], b.e[i])
           [] a.t = "object" ->
                /\ Keys(Defined(a.e)) = Keys(Defined(b.e))
                /\ \A k \in Keys(Defined(a.e)) : DeepEqual(GetProp(a, k), GetProp(b, k))
           [] OTHER -> a = b

\* C24: createCollection(name, config) sends a PUT to /collections/<the name
\* encoded> whose body, JSON-decoded, deep-equals config: the client adds no
\* property, removes none and renames none.
C24_CreateCollectionRoundTrip ==
    \A s \in Slots :
        (Sent(s) /\ call[s].method = "createCollection") =>
            /\ sent[s][1].verb = "PUT"
            /\ Tail(sent[s][1].url) =
                    <<"/", "collections", "/">> \o encodeURIComponent(call[s].args.name)
            /\ sent[s][1].body # NoText
            /\ DeepEqual(JSONparse(sent[s][1].body), call[s].args.body)

C24_Witness ==
    \E s \in Slots :
        /\ Sent(s)
        /\ call[s].method = "createCollection"
        /\ call[s].args.body =
                JsObj(<<Prop("vectors", Vectors), Prop("on_disk_payload", JsUndefined),
                        Prop("shard_number", JsNum(2))>>)
        /\ JSONparse(sent[s][1].body) =
                JsObj(<<Prop("vectors", Vectors), Prop("shard_number", JsNum(2))>>)
        /\ sent[s][1].verb = "PUT"

\* a call of batchUpdate, made by the caller or by qdrant_batch_update
BatchCall(s) == call[s].method = "batchUpdate"

\* the operations the caller of the slot asked for: the input of the tool,
\* or the request handed to the method
OperationsAsked(s) ==
    IF toolCall[s].tool = "qdrant_batch_update" THEN toolCall[s].input.body
    ELSE GetProp(call[s].args.body, "operations")

\* the list of results, one per operation asked for and in their order:
\* result i answers operation i
ResultPerOperation(s) == [i \in 1..Len(OperationsAsked(s).e) |-> i]

\* the operations go out in one request, none dropped, repeated or moved
BatchSentInOrder(s) ==
    /\ Len(sent[s]) = 1
    /\ sent[s][1].verb = "POST"
    /\ LET operations == GetProp(JSONparse(sent[s][1].body), "operations")
       IN  /\ operations.t = "array"
           /\ Len(operations.e) = Len(OperationsAsked(s).e)
           /\ \A i \in 1..Len(operations.e) :
                    DeepEqual(operations.e[i], OperationsAsked(s).e[i])

\* C25 as stated: a batch of n operations goes out in one request in input
\* order, and what the caller gets back is the list of exactly n results,
\* result i answering operation i.
C25_BatchResultsPerOperation ==
    \A s \in Slots :
        BatchCall(s) =>
            /\ Sent(s) => BatchSentInOrder(s)
            /\ (Done(s) /\ ~outcome[s].threw) =>
                    /\ outcome[s].value.tag = "result"
                    /\ outcome[s].value.result = "list"
                    /\ outcome[s].value.list = ResultPerOperation(s)

\* C25 amended: a batch of n operations goes out in one request in input
\* order, and what the caller gets back is the result of the service's answer
\* as it came: the list of n results in input order when that is what the
\* service answered, and otherwise whatever else it answered.
C25_BatchPassThrough ==
    \A s \in Slots :
        BatchCall(s) =>
            /\ Sent(s) => BatchSentInOrder(s)
            /\ (Done(s) /\ ~outcome[s].threw) =>
                    /\ outcome[s].value =
                            IF response[s].status = 204 THEN Undefined
                            ELSE ResultOfBody(response[s].body)
                    /\ (response[s].status # 204
                            /\ response[s].body = ListBody(ResultPerOperation(s))) =>
                            outcome[s].value.list = ResultPerOperation(s)

C25_Witness ==
    \E s \in Slots :
        /\ Done(s)
        /\ toolCall[s].tool = "qdrant_batch_update"
        /\ Len(toolCall[s].input.body.e) = 3
        /\ KindOf(toolCall[s].input.body.e[1]) = "delete"
        /\ KindOf(toolCall[s].input.body.e[2]) = "upsert"
        /\ BatchSentInOrder(s)
        /\ response[s].body = ListBody(<<1, 2, 3>>)
        /\ outcome[s].value.list = <<1, 2, 3>>
        /\ toolCall[s].response = ToolResponse(FALSE, "result")

\* C26: no method of the client changes the credentials it was built with:
\* whatever calls the client has served, and however they ended, the client
\* holds the credentials given at construction, and every request it has
\* sent went to that base URL with that API key (no key when none was given).
C26_CredentialsUnchanged ==
    \A s \in Slots :
        clientOf[s] # 0 =>
            /\ clients[clientOf[s]] = QdrantClientImpl(credentials[s])
            /\ \A i \in 1..Len(sent[s]) :
                    /\ sent[s][i].url[1] = credentials[s].baseUrl
                    /\ sent[s][i].headers.apiKey = credentials[s].apiKey

C26_Witness ==
    \E s \in Slots :
        /\ pc[s] = "awaiting"
        /\ Len(sent[s]) = 3
        /\ response[s].status = 401
        /\ reqOutcome[s].kind = "AuthenticationError"
        /\ credentials[s].apiKey = "key-A"
        /\ sent[s][3].headers.apiKey = "key-A"
        /\ sent[s][3].url[1] = "http://a:6333"

\* a call of testConnection that has ended
ConnectionTested(s) == Done(s) /\ call[s].method = "testConnection"

\* C27 as stated: testConnection reports connected: true exactly when
\* getVersion ended without throwing, and connected: false only when
\* getVersion itself threw.
C27_ConnectedIffVersionCall ==
    \A s \in Slots :
        ConnectionTested(s) =>
            /\ ~outcome[s].threw
            /\ outcome[s].value.connected <=> ~reqOutcome[s].threw

\* C27 amended: testConnection reports connected: true exactly when
\* getVersion ended without throwing and returned a value; it reports
\* connected: false when getVersion threw, with that error's message, and
\* also when getVersion returned nothing (a 204 answer, an answer without a
\* result), with the message of the TypeError that reading the version raised.
C27_ConnectedIffVersionRead ==
    \A s \in Slots :
        ConnectionTested(s) =>
            /\ ~outcome[s].threw
            /\ outcome[s].value.connected <=>
                    (~reqOutcome[s].threw /\ reqOutcome[s].value # Undefined)
            /\ reqOutcome[s].threw => outcome[s].message = reqOutcome[s].message
            /\ (~reqOutcome[s].threw /\ reqOutcome[s].value = Undefined) =>
                    outcome[s].message = NoVersionMessage

C27_Witness ==
    \E s \in Slots :
        /\ ConnectionTested(s)
        /\ response[s].status = 204
        /\ reqOutcome[s] = Returned(Undefined, "", 0)
        /\ outcome[s] = Returned(Connection(FALSE), NoVersionMessage, 0)

\* the handler of a tool ran and its call has ended
Handled(s) == Done(s) /\ toolCall[s].tool # "none"

\* an error was thrown inside the try block of the slot's handler: by the
\* client method, or by the handler reading the status of no result
ThrownInHandler(s) ==
    \/ outcome[s].threw
    \/ /\ toolCall[s].tool \in {"qdrant_upsert_points", "qdrant_create_field_index"}
       /\ outcome[s].value = Undefined

C29_SwitchAliasOneRequest ==
    \A s \in Slots :
        toolCall[s].tool = "qdrant_switch_alias" =>
            /\ call[s].method = "updateAliases"
            /\ Len(sent[s]) <= 1
            /\ (Done(s) /\ reqOutcome[s] # requestRefusal) => Len(sent[s]) = 1
            /\ \A i \in 1..Len(sent[s]) :
                    /\ sent[s][i].verb = "POST"
                    /\ Tail(sent[s][i].url) = <<"/", "collections", "/", "aliases">>
                    /\ JSONparse(sent[s][i].body) =
                            JsObj(<<Prop("actions", JsArr(<<
                                JsObj(<<Prop("delete_alias",
                                    JsObj(<<Prop("alias_name", JsStr(toolCall[s].input.item))>>))>>),
                                JsObj(<<Prop("create_alias",
                                    JsObj(<<Prop("collection_name", JsStr(toolCall[s].input.name)),
                                            Prop("alias_name", JsStr(toolCall[s].input.item))>>))>>)
                            >>))>>)

C29_Witness ==
    \E s \in Slots :
        /\ Handled(s)
        /\ toolCall[s].tool = "qdrant_switch_alias"
        /\ toolCall[s].input.name = <<"a", "/", " ", "b">>
        /\ Len(sent[s]) = 1
        /\ Len(GetProp(JSONparse(sent[s][1].body), "actions").e) = 2
        /\ response[s].status = 200
        /\ toolCall[s].response = ToolResponse(FALSE, "result")

\* C30: the body createFieldIndex sends has field_name equal to its
\* fieldName argument, whatever request object is passed with it: none, or
\* one that has a field_name and a field_schema of its own.
C30_FieldNameIsArgument ==
    \A s \in Slots :
        (Sent(s) /\ call[s].method = "createFieldIndex") =>
            GetProp(JSONparse(sent[s][1].body), "field_name") = JsStr(call[s].args.item)

====
